---- MODULE Spec2Model ----
(***************************************************************************)
(* Load-mapping generation and load-query extension of CumulusCI's bulk    *)
(* data tasks.                                                             *)
(*                                                                         *)
(*   generate_mapping_from_declarations.py                                 *)
(*       classify_and_filter_lookups, discover_dependendencies and the     *)
(*       _mapping_step of create_load_mapping_file_from_extract_...        *)
(*   query_transformers.py                                                 *)
(*       LoadQueryExtender and its four subclasses                         *)
(*                                                                         *)
(* Python values are modelled as follows: a list or tuple is a sequence;   *)
(* a dict is a sequence of [key, value] records with distinct keys, in     *)
(* insertion order; None is the record NoneValue; a raised exception is    *)
(* the name of its class.                                                  *)
(***************************************************************************)
EXTENDS Integers, Sequences, FiniteSets, TLC

VARIABLES
    \* ---- mapping generation
    decls,          \* the SimplifiedExtractDeclarations handed in
    schema,         \* the org Schema: sobject -> field -> describe info
    gen_pc,         \* position in create_load_mapping_file_from_extract_declarations
    simplified_decls_w_lookups,   \* result of classify_and_filter_lookups
    intertable_dependencies,      \* result of discover_dependendencies
    mapping_steps,                \* [_mapping_step(decl) for decl in ...]
    gen_error,                    \* exception that ended the run, or "none"
    \* ---- load-query extension
    mapping,        \* the load step (MappingStep) with its MappingLookup objects
    metadata,       \* metadata.tables: the names of the tables of the dataset
    model,          \* the record model class of the step's table
    ext,            \* the LoadQueryExtender instances: instance -> its attributes
    alias_count,    \* number of aliases sqlalchemy.orm.aliased has handed out
    query,          \* the query under composition
    compose_pc,     \* position of the composition of one load query
    compose_error   \* exception that ended the composition, or "none"

gen_vars == <<decls, schema, gen_pc, simplified_decls_w_lookups,
              intertable_dependencies, mapping_steps, gen_error>>

step_vars == <<mapping, metadata, model>>

compose_vars == <<query, compose_pc, compose_error>>

query_vars == <<step_vars, ext, alias_count, compose_vars>>

vars == <<gen_vars, query_vars>>

(***************************************************************************)
(* Bounds of the model.                                                    *)
(***************************************************************************)
MaxDecls == 2

\* lookups of a load step
MaxLookups == 2

\* times one fragment's computation may be entered on one extender instance
MaxRuns == 2

\* Objects that declarations may export, and one that never is exported.
SObjects == {"Account", "Contact"}

FieldNames == {"Name", "ParentId", "OwnerId", "RecordTypeId"}

\* Field lists of a declaration: empty, plain only, lookups in both orders,
\* RecordTypeId in several places, repeated names.
FieldLists ==
    { <<>>,
      <<"Name">>,
      <<"RecordTypeId">>,
      <<"ParentId", "Name">>,
      <<"Name", "OwnerId", "ParentId">>,
      <<"OwnerId", "RecordTypeId", "ParentId">>,
      <<"Name", "ParentId", "Name", "ParentId">> }

Declarations == [sf_object : SObjects, fields : FieldLists]

SeqsUpTo(S, n) == UNION { [1..k -> S] : k \in 0..n }

\* describe info of one field; present = FALSE: the schema has no such field
FieldInfo(refs) == [present |-> TRUE, referenceTo |-> refs]
NoFieldInfo == [present |-> FALSE, referenceTo |-> <<>>]

FieldTables ==
    { [f \in FieldNames |->
         CASE f = "Name" -> FieldInfo(<<>>)
           [] f = "ParentId" -> p
           [] f = "OwnerId" -> o
           [] f = "RecordTypeId" -> r] :
      p \in { FieldInfo(<<>>), FieldInfo(<<"Account">>), FieldInfo(<<"User">>),
              FieldInfo(<<"User", "Contact", "Account">>), NoFieldInfo },
      o \in { FieldInfo(<<"User">>), FieldInfo(<<"Contact", "User", "Account">>) },
      r \in { FieldInfo(<<"RecordType">>), FieldInfo(<<"Account">>), NoFieldInfo } }

Schemas == { [o \in SObjects |-> t] : t \in FieldTables }

(***************************************************************************)
(* Python helpers                                                          *)
(***************************************************************************)
Range(s) == { s[i] : i \in 1..Len(s) }

\* x in list
In(x, s) == \E i \in 1..Len(s) : s[i] = x

\* dict(pairs): a later pair with a key already present replaces the value
\* and keeps the position of the first.
RECURSIVE DictOf(_)
DictOf(pairs) ==
    IF pairs = <<>> THEN <<>>
    ELSE LET n == Len(pairs)
             d == DictOf(SubSeq(pairs, 1, n - 1))
             p == pairs[n]
         IN IF \E i \in 1..Len(d) : d[i].key = p.key
            THEN [i \in 1..Len(d) |-> IF d[i].key = p.key THEN p ELSE d[i]]
            ELSE Append(d, p)

DictKeys(d) == [i \in 1..Len(d) |-> d[i].key]

(***************************************************************************)
(* _fields_and_lookups_for_decl                                            *)
(***************************************************************************)
\* is_lookup without the RecordTypeId exception
is_lookup_asks_schema_for_every_field(sobject_schema_info, field_name) ==
    sobject_schema_info[field_name].referenceTo # <<>>

\* is_lookup(field_name): RecordTypeId is answered before the schema is read
is_lookup(sobject_schema_info, field_name) ==
    IF field_name = "RecordTypeId" THEN FALSE
    ELSE sobject_schema_info[field_name].referenceTo # <<>>

\* sobject_schema_info.fields[field_name] raises KeyError in is_lookup
is_lookup_raises(sobject_schema_info, field_name) ==
    /\ field_name # "RecordTypeId"
    /\ ~sobject_schema_info[field_name].present

\* partition(is_lookup, decl.fields): (filterfalse, filter)
simple_fields_of(decl, sobject_schema_info) ==
    SelectSeq(decl.fields, LAMBDA f : ~is_lookup(sobject_schema_info, f))

lookups_of(decl, sobject_schema_info) ==
    SelectSeq(decl.fields, LAMBDA f : is_lookup(sobject_schema_info, f))

\* the targets left as the schema reports them
filter_tables_keeps_all(tables, referenceable_tables) == tables

\* [table for table in tables if table in referenceable_tables]
filter_tables(tables, referenceable_tables) ==
    SelectSeq(tables, LAMBDA t : In(t, referenceable_tables))

\* the pairs without the "if any(...)" condition
lookups_and_targets_without_any(decl, sobject_schema_info, referenceable_tables) ==
    LET lookups == SelectSeq(decl.fields, LAMBDA f : is_lookup(sobject_schema_info, f))
    IN [i \in 1..Len(lookups) |->
           [key |-> lookups[i],
            value |-> SelectSeq(sobject_schema_info[lookups[i]].referenceTo,
                                LAMBDA t : In(t, referenceable_tables))]]

\* the (lookup, targets) pairs that survive "if any(table in referenceable_tables ...)"
lookups_and_targets_of(decl, sobject_schema_info, referenceable_tables) ==
    LET lookups == lookups_of(decl, sobject_schema_info)
        pairs == [i \in 1..Len(lookups) |->
                    [key |-> lookups[i],
                     value |-> sobject_schema_info[lookups[i]].referenceTo]]
        kept == SelectSeq(pairs,
                    LAMBDA p : \E i \in 1..Len(p.value) :
                                   In(p.value[i], referenceable_tables))
    IN [i \in 1..Len(kept) |->
           [key |-> kept[i].key,
            value |-> filter_tables(kept[i].value, referenceable_tables)]]

\* _add_lookups_to_decl: the declaration with "fields" replaced and "lookups" added
add_lookups_to_decl(decl, sch, referenceable_tables) ==
    LET sobject_schema_info == sch[decl.sf_object]
    IN [sf_object |-> decl.sf_object,
        fields |-> simple_fields_of(decl, sobject_schema_info),
        lookups |-> DictOf(lookups_and_targets_of(decl, sobject_schema_info,
                                                  referenceable_tables))]

add_lookups_to_decl_raises(decl, sch) ==
    \E i \in 1..Len(decl.fields) :
        is_lookup_raises(sch[decl.sf_object], decl.fields[i])

\* classify_and_filter_lookups
referenceable_tables_of(ds) == [i \in 1..Len(ds) |-> ds[i].sf_object]

classify_and_filter_lookups(ds, sch) ==
    [i \in 1..Len(ds) |-> add_lookups_to_decl(ds[i], sch, referenceable_tables_of(ds))]

classify_and_filter_lookups_raises(ds, sch) ==
    \E i \in 1..Len(ds) : add_lookups_to_decl_raises(ds[i], sch)

(***************************************************************************)
(* discover_dependendencies                                                *)
(***************************************************************************)
\* SObjDependency(decl.sf_object, tablenames, fieldname)
SObjDependency(table_name_from, table_names_to, field_name) ==
    [table_name_from |-> table_name_from,
     table_names_to |-> table_names_to,
     field_name |-> field_name]

\* OrderedSet.add: a set that keeps first-insertion order
OrderedSetAdd(os, item) == IF In(item, os) THEN os ELSE Append(os, item)

\* the inner loop: for fieldname, tablenames in decl.lookups.items()
RECURSIVE add_decl_dependencies(_, _, _)
add_decl_dependencies(os, decl, j) ==
    IF j > Len(decl.lookups) THEN os
    ELSE add_decl_dependencies(
             OrderedSetAdd(os, SObjDependency(decl.sf_object,
                                              decl.lookups[j].value,
                                              decl.lookups[j].key)),
             decl, j + 1)

\* the outer loop: for decl in simplified_decls
RECURSIVE add_dependencies_from(_, _, _)
add_dependencies_from(os, ds, i) ==
    IF i > Len(ds) THEN os
    ELSE add_dependencies_from(add_decl_dependencies(os, ds[i], 1), ds, i + 1)

\* "return" indented into the outer loop: only the first declaration is read
discover_dependendencies_returns_in_loop(ds) ==
    IF ds = <<>> THEN <<>> ELSE add_decl_dependencies(<<>>, ds[1], 1)

discover_dependendencies(ds) == add_dependencies_from(<<>>, ds, 1)

(***************************************************************************)
(* _mapping_step                                                           *)
(***************************************************************************)
\* the plain fields alone
chain_fields_without_lookups(decl) == decl.fields

\* tuple(chain(decl.fields, decl.lookups.keys()))
chain_fields(decl) == decl.fields \o DictKeys(decl.lookups)

\* MappingStep(sf_object=..., fields=dict(zip(fields, fields))); lookups not passed
mapping_step(decl) ==
    LET fields == chain_fields(decl)
    IN [sf_object |-> decl.sf_object,
        fields |-> DictOf([i \in 1..Len(fields) |->
                              [key |-> fields[i], value |-> fields[i]]]),
        lookups |-> <<>>]

(***************************************************************************)
(* create_load_mapping_file_from_extract_declarations, statement by        *)
(* statement                                                               *)
(***************************************************************************)
GenInit ==
    /\ decls \in SeqsUpTo(Declarations, MaxDecls)
    /\ schema \in Schemas
    /\ gen_pc = "classify"
    /\ simplified_decls_w_lookups = <<>>
    /\ intertable_dependencies = <<>>
    /\ mapping_steps = <<>>
    /\ gen_error = "none"

\* line 32
Classify ==
    /\ gen_pc = "classify"
    /\ IF classify_and_filter_lookups_raises(decls, schema)
       THEN /\ gen_pc' = "raised"
            /\ gen_error' = "KeyError"
            /\ UNCHANGED simplified_decls_w_lookups
       ELSE /\ gen_pc' = "discover"
            /\ simplified_decls_w_lookups' = classify_and_filter_lookups(decls, schema)
            /\ UNCHANGED gen_error
    /\ UNCHANGED <<decls, schema, intertable_dependencies, mapping_steps>>
    /\ UNCHANGED query_vars

\* line 33
Discover ==
    /\ gen_pc = "discover"
    /\ intertable_dependencies' = discover_dependendencies(simplified_decls_w_lookups)
    /\ gen_pc' = "steps"
    /\ UNCHANGED <<decls, schema, simplified_decls_w_lookups, mapping_steps, gen_error>>
    /\ UNCHANGED query_vars

\* line 43
MappingSteps ==
    /\ gen_pc = "steps"
    /\ mapping_steps' = [i \in 1..Len(simplified_decls_w_lookups) |->
                            mapping_step(simplified_decls_w_lookups[i])]
    /\ gen_pc' = "done"
    /\ UNCHANGED <<decls, schema, simplified_decls_w_lookups,
                   intertable_dependencies, gen_error>>
    /\ UNCHANGED query_vars

GenNext == Classify \/ Discover \/ MappingSteps

(***************************************************************************)
(* Load steps, store metadata and record models                            *)
(***************************************************************************)
Classes == {"AddLookupsToQuery", "AddRecordTypesToQuery",
            "AddMappingFiltersToQuery", "AddPersonAccountsToQuery"}

Fragments == {"columns_to_add", "filters_to_add", "outerjoins_to_add"}

\* a table of the dataset, named <sobject><suffix>
TableName(sobject, suffix) == [sobject |-> sobject, suffix |-> suffix]

\* f"{lookup.table}_sf_ids"
sf_ids_table(table) == TableName(table, "_sf_ids")

\* mapping.get_source_record_type_table(), mapping.get_destination_record_type_table()
source_record_type_table(m) == TableName(m.sf_object, "_rt_mapping")
destination_record_type_table(m) == TableName(m.sf_object, "_rt_target_mapping")

\* something a query selects from: a table (alias_id = 0) or an alias of one
FromItem(table, alias_id) == [table |-> table, alias_id |-> alias_id]

\* Python's None where a table or alias is expected
NoTable == FromItem(TableName("None", ""), 0)

\* the table of the record model of the step
model_table(m) == FromItem(TableName(m.sf_object, ""), 0)

Column(from, name) == [from |-> from, name |-> name]

\* the names MappingStep.lookups gives its entries, by position
LookupFieldNames == <<"AccountId", "ParentId", "ReportsToId", "OwnerId">>

\* MappingLookup objects as the mapping file gives them: no alias yet
LookupLists ==
    { [i \in 1..Len(l) |->
          [name |-> LookupFieldNames[i], table |-> l[i].table,
           after |-> l[i].after, aliased_table |-> NoTable]] :
      l \in SeqsUpTo([table : SObjects, after : BOOLEAN], MaxLookups) }

\* mapping.record_type: None is the empty string
RecordTypes == {"", "Business"}

FilterLists == { <<>>, <<"Name != 'x'">>, <<"Name != 'x'", "Age > 1">> }

StepFieldLists == { <<"Name">>, <<"Name", "RecordTypeId">> }

\* MappingStep: fields is the dict {name: name}
LoadStep(sf_object, fields, record_type, filters, lookups) ==
    [sf_object |-> sf_object,
     fields |-> [i \in 1..Len(fields) |-> [key |-> fields[i], value |-> fields[i]]],
     record_type |-> record_type,
     filters |-> filters,
     lookups |-> lookups]

\* the tables the extenders of a step ask metadata.tables for
TablesOf(m) ==
    { sf_ids_table(o) : o \in SObjects }
        \cup { source_record_type_table(m), destination_record_type_table(m) }

\* the record model: whether it has a record_type attribute and an
\* IsPersonAccount column
Models == [record_type : BOOLEAN, IsPersonAccount : BOOLEAN]

(***************************************************************************)
(* The fragments.  A fragment is None or a list; a computation returns a   *)
(* value or raises, and may leave the lookups of the step changed.         *)
(***************************************************************************)
NoneFragment == [is_none |-> TRUE, items |-> <<>>]
ListFragment(items) == [is_none |-> FALSE, items |-> items]

\* "if self.columns_to_add:"
Truthy(fragment) == ~fragment.is_none /\ fragment.items # <<>>

Returns(value, m, n) ==
    [raises |-> "none", value |-> value, mapping |-> m, alias_count |-> n]

Raises(exception, m, n) ==
    [raises |-> exception, value |-> NoneFragment, mapping |-> m, alias_count |-> n]

\* LoadQueryExtender.columns_to_add, filters_to_add, outerjoins_to_add
base_fragment(self, m, md, mdl, n) == Returns(NoneFragment, m, n)

\* ---- AddLookupsToQuery

\* __init__: the positions in mapping.lookups of the lookups with "not lookup.after"
lookups_init(m) ==
    SelectSeq([i \in 1..Len(m.lookups) |-> i], LAMBDA i : ~m.lookups[i].after)

\* the loop of columns_to_add from its k-th lookup on
RECURSIVE alias_lookups(_, _, _, _, _)
alias_lookups(lookups, k, m, md, n) ==
    IF k > Len(lookups) THEN Returns(NoneFragment, m, n)
    ELSE LET table == sf_ids_table(m.lookups[lookups[k]].table)
         IN IF table \notin md
            THEN Raises("KeyError", m, n)
            ELSE alias_lookups(lookups, k + 1,
                     [m EXCEPT !.lookups[lookups[k]].aliased_table =
                                   FromItem(table, n + 1)],
                     md, n + 1)

\* columns_to_add taking the tables of the metadata themselves, without aliased()
lookups_columns_to_add_without_aliased(self, m, md, mdl, n) ==
    IF \E k \in 1..Len(self.lookups) :
          sf_ids_table(m.lookups[self.lookups[k]].table) \notin md
    THEN Raises("KeyError", m, n)
    ELSE LET tabled == [m EXCEPT !.lookups =
                          [i \in 1..Len(m.lookups) |->
                              IF In(i, self.lookups)
                              THEN [m.lookups[i] EXCEPT !.aliased_table =
                                       FromItem(sf_ids_table(m.lookups[i].table), 0)]
                              ELSE m.lookups[i]]]
         IN Returns(ListFragment([k \in 1..Len(self.lookups) |->
                        Column(tabled.lookups[self.lookups[k]].aliased_table, "sf_id")]),
                    tabled, n)

lookups_columns_to_add(self, m, md, mdl, n) ==
    LET aliased == alias_lookups(self.lookups, 1, m, md, n)
    IN IF aliased.raises # "none" THEN aliased
       ELSE Returns(ListFragment([k \in 1..Len(self.lookups) |->
                        Column(aliased.mapping.lookups[self.lookups[k]].aliased_table,
                               "sf_id")]),
                    aliased.mapping, aliased.alias_count)

\* join_for_lookup: key_field is the name of the lookup
join_for_lookup(lookup, m) ==
    [target |-> lookup.aliased_table,
     left |-> Column(lookup.aliased_table, "id"),
     right |-> Column(model_table(m), lookup.name)]

lookups_outerjoins_to_add(self, m, md, mdl, n) ==
    IF \E k \in 1..Len(self.lookups) : m.lookups[self.lookups[k]].aliased_table = NoTable
    THEN Raises("AttributeError", m, n)
    ELSE Returns(ListFragment([k \in 1..Len(self.lookups) |->
                     join_for_lookup(m.lookups[self.lookups[k]], m)]), m, n)

\* ---- AddRecordTypesToQuery

HasRecordTypeId(m) == \E i \in 1..Len(m.fields) : m.fields[i].key = "RecordTypeId"

\* mapping.fields["RecordTypeId"]
RecordTypeIdColumn(m) ==
    (CHOOSE e \in Range(m.fields) : e.key = "RecordTypeId").value

\* __init__: self.rt_dest_table, or the exception of metadata.tables[...]
record_types_init(m, md) ==
    IF HasRecordTypeId(m)
    THEN IF destination_record_type_table(m) \in md
         THEN [raises |-> "none",
               rt_dest_table |-> FromItem(destination_record_type_table(m), 0)]
         ELSE [raises |-> "KeyError", rt_dest_table |-> NoTable]
    ELSE [raises |-> "none", rt_dest_table |-> NoTable]

record_types_columns_to_add(self, m, md, mdl, n) ==
    IF self.rt_dest_table # NoTable
    THEN Returns(ListFragment(<<Column(self.rt_dest_table, "record_type_id")>>), m, n)
    ELSE Returns(NoneFragment, m, n)

\* filters_to_add that filters only when the step declares RecordTypeId
record_types_filters_to_add_with_RecordTypeId(self, m, md, mdl, n) ==
    IF HasRecordTypeId(m) /\ m.record_type # "" /\ mdl.record_type
    THEN Returns(ListFragment(<<[column |-> Column(model_table(m), "record_type"),
                                 equals |-> m.record_type]>>), m, n)
    ELSE Returns(NoneFragment, m, n)

record_types_filters_to_add(self, m, md, mdl, n) ==
    IF m.record_type # "" /\ mdl.record_type
    THEN Returns(ListFragment(<<[column |-> Column(model_table(m), "record_type"),
                                 equals |-> m.record_type]>>), m, n)
    ELSE Returns(NoneFragment, m, n)

record_types_outerjoins_to_add(self, m, md, mdl, n) ==
    IF HasRecordTypeId(m)
    THEN IF source_record_type_table(m) \notin md
         THEN Raises("BulkDataException", m, n)
         ELSE IF destination_record_type_table(m) \notin md
         THEN Raises("KeyError", m, n)
         ELSE LET rt_source_table == FromItem(source_record_type_table(m), 0)
                  rt_dest_table == FromItem(destination_record_type_table(m), 0)
              IN Returns(ListFragment(
                     << [target |-> rt_source_table,
                         left |-> Column(rt_source_table, "record_type_id"),
                         right |-> Column(model_table(m), RecordTypeIdColumn(m))],
                        [target |-> rt_dest_table,
                         left |-> Column(rt_dest_table, "developer_name"),
                         right |-> Column(rt_source_table, "developer_name")] >>),
                     m, n)
    ELSE Returns(NoneFragment, m, n)

\* ---- AddMappingFiltersToQuery

mapping_filters_to_add(self, m, md, mdl, n) ==
    IF m.filters # <<>>
    THEN Returns(ListFragment([i \in 1..Len(m.filters) |-> [text |-> m.filters[i]]]),
                 m, n)
    ELSE Returns(NoneFragment, m, n)

\* ---- AddPersonAccountsToQuery

\* func.lower(model.__table__.columns.get("IsPersonAccount")) == "false";
\* columns.get gives None for a column the table does not have
person_accounts_predicate(m, mdl) ==
    [lower |-> IF mdl.IsPersonAccount
               THEN Column(model_table(m), "IsPersonAccount")
               ELSE Column(NoTable, "None"),
     equals |-> "false"]

\* filters_to_add with the assert removed
person_accounts_filters_to_add_unasserted(self, m, md, mdl, n) ==
    Returns(ListFragment(<<person_accounts_predicate(m, mdl)>>), m, n)

person_accounts_filters_to_add(self, m, md, mdl, n) ==
    IF m.sf_object # "Contact"
    THEN Raises("AssertionError", m, n)
    ELSE Returns(ListFragment(<<person_accounts_predicate(m, mdl)>>), m, n)

\* the values a row's IsPersonAccount may hold, and SQL's lower() of them
PersonAccountValues == {"true", "True", "TRUE", "false", "False", "FALSE", "", "NULL"}

Lower(v) ==
    CASE v \in {"true", "True", "TRUE"} -> "true"
      [] v \in {"false", "False", "FALSE"} -> "false"
      [] OTHER -> v

\* whether a row with IsPersonAccount = v passes the predicate; a comparison
\* with NULL, or of lower(NULL), is not true
RowPasses(predicate, v) ==
    /\ predicate.lower.from # NoTable
    /\ v # "NULL"
    /\ Lower(v) = predicate.equals

\* ---- the function behind attribute f of an instance of class self.cls
compute(self, f, m, md, mdl, n) ==
    CASE self.cls = "AddLookupsToQuery" /\ f = "columns_to_add" ->
            lookups_columns_to_add(self, m, md, mdl, n)
      [] self.cls = "AddLookupsToQuery" /\ f = "outerjoins_to_add" ->
            lookups_outerjoins_to_add(self, m, md, mdl, n)
      [] self.cls = "AddRecordTypesToQuery" /\ f = "columns_to_add" ->
            record_types_columns_to_add(self, m, md, mdl, n)
      [] self.cls = "AddRecordTypesToQuery" /\ f = "filters_to_add" ->
            record_types_filters_to_add(self, m, md, mdl, n)
      [] self.cls = "AddRecordTypesToQuery" /\ f = "outerjoins_to_add" ->
            record_types_outerjoins_to_add(self, m, md, mdl, n)
      [] self.cls = "AddMappingFiltersToQuery" /\ f = "filters_to_add" ->
            mapping_filters_to_add(self, m, md, mdl, n)
      [] self.cls = "AddPersonAccountsToQuery" /\ f = "filters_to_add" ->
            person_accounts_filters_to_add(self, m, md, mdl, n)
      [] OTHER -> base_fragment(self, m, md, mdl, n)

(***************************************************************************)
(* Extender instances                                                      *)
(*   constructed, init_raised : whether __init__ returned, or what it      *)
(*                              raised                                     *)
(*   lookups, rt_dest_table   : the attributes the subclasses' __init__    *)
(*                              set (lookups by position in the step)      *)
(*   cached                   : the instance __dict__ entries that         *)
(*                              cached_property fills                      *)
(*   raised                   : what the latest read of the fragment       *)
(*                              raised, or "none"                          *)
(*   runs, completed          : times the fragment's function was entered, *)
(*                              and returned                               *)
(*   first, returned          : what the first and the latest read that    *)
(*                              returned gave the caller                   *)
(***************************************************************************)
Blank(c) ==
    [cls |-> c, constructed |-> FALSE, init_raised |-> "none",
     lookups |-> <<>>, rt_dest_table |-> NoTable,
     cached |-> [f \in Fragments |-> [set |-> FALSE, value |-> NoneFragment]],
     raised |-> [f \in Fragments |-> "none"],
     runs |-> [f \in Fragments |-> 0],
     completed |-> [f \in Fragments |-> 0],
     first |-> [f \in Fragments |-> NoneFragment],
     returned |-> [f \in Fragments |-> NoneFragment]]

\* __init__ of the class of self
init(self, m, md) ==
    CASE self.cls = "AddLookupsToQuery" ->
            [self EXCEPT !.constructed = TRUE, !.lookups = lookups_init(m)]
      [] self.cls = "AddRecordTypesToQuery" ->
            LET r == record_types_init(m, md)
            IN IF r.raises # "none"
               THEN [self EXCEPT !.init_raised = r.raises]
               ELSE [self EXCEPT !.constructed = TRUE,
                                 !.rt_dest_table = r.rt_dest_table]
      [] OTHER -> [self EXCEPT !.constructed = TRUE]

\* a read that runs the function and stores nothing, as a plain property would
cached_property_miss_stores_nothing(self, f, r) ==
    IF r.raises # "none"
    THEN [self EXCEPT !.runs[f] = @ + 1, !.raised[f] = r.raises]
    ELSE [self EXCEPT !.runs[f] = @ + 1, !.completed[f] = @ + 1,
                      !.raised[f] = "none",
                      !.first[f] = IF self.completed[f] = 0 THEN r.value ELSE @,
                      !.returned[f] = r.value]

\* cached_property.__get__ with no value in the instance __dict__: run the
\* function; r is what it did.  An exception leaves the __dict__ as it was.
cached_property_miss(self, f, r) ==
    IF r.raises # "none"
    THEN [self EXCEPT !.runs[f] = @ + 1, !.raised[f] = r.raises]
    ELSE [self EXCEPT !.runs[f] = @ + 1, !.completed[f] = @ + 1,
                      !.raised[f] = "none",
                      !.cached[f] = [set |-> TRUE, value |-> r.value],
                      !.first[f] = IF self.completed[f] = 0 THEN r.value ELSE @,
                      !.returned[f] = r.value]

\* cached_property.__get__ with the value in the instance __dict__
cached_property_hit(self, f) ==
    [self EXCEPT !.raised[f] = "none", !.returned[f] = self.cached[f].value]

\* reading attribute f of instance e in the current state
Read(e, f) ==
    IF ext[e].cached[f].set
    THEN [self |-> cached_property_hit(ext[e], f), raises |-> "none",
          value |-> ext[e].cached[f].value,
          mapping |-> mapping, alias_count |-> alias_count]
    ELSE LET r == compute(ext[e], f, mapping, metadata, model, alias_count)
         IN [self |-> cached_property_miss(ext[e], f, r), raises |-> r.raises,
             value |-> r.value, mapping |-> r.mapping, alias_count |-> r.alias_count]

(***************************************************************************)
(* The query: what it selects from, and what add_columns, outerjoin and    *)
(* filter have added, with the calls in the order they were made           *)
(***************************************************************************)
BaseQuery(m) ==
    [from |-> model_table(m), columns |-> <<>>, joins |-> <<>>, filters |-> <<>>,
     applied |-> <<>>]

NoQuery ==
    [from |-> NoTable, columns |-> <<>>, joins |-> <<>>, filters |-> <<>>,
     applied |-> <<>>]

\* LoadQueryExtender.add_columns, add_filters, add_outerjoins on fragment value v
add_columns(q, v, by) ==
    IF Truthy(v)
    THEN [q EXCEPT !.columns = @ \o v.items,
                   !.applied = Append(@, [op |-> "add_columns", by |-> by])]
    ELSE q

add_filters(q, v, by) ==
    IF Truthy(v)
    THEN [q EXCEPT !.filters = @ \o v.items,
                   !.applied = Append(@, [op |-> "filter", by |-> by])]
    ELSE q

add_outerjoins(q, v, by) ==
    IF Truthy(v)
    THEN [q EXCEPT !.joins = @ \o v.items,
                   !.applied = Append(@, [op |-> "outerjoin", by |-> by])]
    ELSE q

(***************************************************************************)
(* Extenders in use: two instances of one class over one load step, each   *)
(* constructed once and read in any order.  The parts of the step, the     *)
(* metadata and the model that the class does not read are held fixed.     *)
(***************************************************************************)
Instances == {"first", "second"}

StepsFor(c) ==
    CASE c = "AddLookupsToQuery" ->
            { LoadStep("Account", <<"Name">>, "", <<>>, ls) : ls \in LookupLists }
      [] c = "AddRecordTypesToQuery" ->
            { LoadStep(o, fs, rt, <<>>, <<>>) :
                o \in SObjects, fs \in StepFieldLists, rt \in RecordTypes }
      [] c = "AddMappingFiltersToQuery" ->
            { LoadStep(o, <<"Name">>, "", fl, <<>>) : o \in SObjects, fl \in FilterLists }
      [] c = "AddPersonAccountsToQuery" ->
            { LoadStep(o, <<"Name">>, "", <<>>, <<>>) : o \in SObjects }

RecordTypeTables(m) == {source_record_type_table(m), destination_record_type_table(m)}

SfIdsTables == { sf_ids_table(o) : o \in SObjects }

MetadataFor(c, m) ==
    CASE c = "AddLookupsToQuery" ->
            { TablesOf(m) \ missing : missing \in SUBSET {sf_ids_table("Contact")} }
      [] c = "AddRecordTypesToQuery" ->
            { md \cup SfIdsTables : md \in SUBSET RecordTypeTables(m) }
      [] OTHER -> { TablesOf(m) }

ModelsFor(c) ==
    CASE c = "AddRecordTypesToQuery" -> { mdl \in Models : mdl.IsPersonAccount }
      [] c = "AddPersonAccountsToQuery" -> { mdl \in Models : ~mdl.record_type }
      [] OTHER -> { [record_type |-> FALSE, IsPersonAccount |-> TRUE] }

GenIdle ==
    /\ decls = <<>>
    /\ schema = [o \in SObjects |-> [f \in FieldNames |-> NoFieldInfo]]
    /\ gen_pc = "idle"
    /\ simplified_decls_w_lookups = <<>>
    /\ intertable_dependencies = <<>>
    /\ mapping_steps = <<>>
    /\ gen_error = "none"

ComposeIdle ==
    /\ query = NoQuery
    /\ compose_pc = [stage |-> "idle", i |-> 0]
    /\ compose_error = "none"

ExtInit ==
    /\ GenIdle
    /\ ComposeIdle
    /\ \E c \in Classes :
          /\ mapping \in StepsFor(c)
          /\ metadata \in MetadataFor(c, mapping)
          /\ model \in ModelsFor(c)
          /\ ext = [e \in Instances |-> Blank(c)]
    /\ alias_count = 0

\* cls(mapping, metadata, model)
Construct(e) ==
    /\ ~ext[e].constructed
    /\ ext[e].init_raised = "none"
    /\ ext' = [ext EXCEPT ![e] = init(ext[e], mapping, metadata)]
    /\ UNCHANGED <<gen_vars, step_vars, alias_count, compose_vars>>

\* extender.<f>, also as the first thing add_columns, add_filters and
\* add_outerjoins do; the caller goes on after an exception
ReadFragment(e, f) ==
    /\ ext[e].constructed
    /\ ext[e].cached[f].set \/ ext[e].runs[f] < MaxRuns
    /\ LET r == Read(e, f)
       IN /\ ext' = [ext EXCEPT ![e] = r.self]
          /\ mapping' = r.mapping
          /\ alias_count' = r.alias_count
    /\ UNCHANGED <<gen_vars, metadata, model, compose_vars>>

ColumnsToAdd(e) == ReadFragment(e, "columns_to_add")

FiltersToAdd(e) == ReadFragment(e, "filters_to_add")

OuterjoinsToAdd(e) == ReadFragment(e, "outerjoins_to_add")

ExtNext ==
    \E e \in Instances :
        \/ Construct(e)
        \/ ColumnsToAdd(e)
        \/ FiltersToAdd(e)
        \/ OuterjoinsToAdd(e)

ExtenderSpec == ExtInit /\ [][ExtNext]_vars

QueryIdle ==
    /\ mapping = LoadStep("Account", <<>>, "", <<>>, <<>>)
    /\ metadata = {}
    /\ model = [record_type |-> FALSE, IsPersonAccount |-> FALSE]
    /\ ext = [e \in Instances |-> Blank("AddLookupsToQuery")]
    /\ alias_count = 0
    /\ ComposeIdle

(***************************************************************************)
(* Composition of the load query of one step: the extenders are registered *)
(* in the order lookups, record types, mapping filters, person accounts    *)
(* (the last on Contact steps only); every extender's outer joins are      *)
(* added first, then every extender's columns, then every extender's       *)
(* filters.  An exception ends the composition.                            *)
(***************************************************************************)
registered(m) ==
    <<"AddLookupsToQuery", "AddRecordTypesToQuery", "AddMappingFiltersToQuery">>
        \o (IF m.sf_object = "Contact" THEN <<"AddPersonAccountsToQuery">> ELSE <<>>)

StageAfter(stage) ==
    CASE stage = "construct" -> "add_outerjoins"
      [] stage = "add_outerjoins" -> "add_columns"
      [] stage = "add_columns" -> "add_filters"
      [] stage = "add_filters" -> "done"

\* the position after the i-th extender of a stage
Advance(pc, m) ==
    IF pc.i < Len(registered(m))
    THEN [stage |-> pc.stage, i |-> pc.i + 1]
    ELSE [stage |-> StageAfter(pc.stage), i |-> 1]

AllSteps ==
    { LoadStep(o, fs, rt, fl, ls) :
        o \in SObjects, fs \in StepFieldLists, rt \in RecordTypes,
        fl \in FilterLists, ls \in LookupLists }

\* the id-mapping tables were written by the load of the earlier steps
ComposeMetadata(m) == { md \cup SfIdsTables : md \in SUBSET RecordTypeTables(m) }

ComposeInit ==
    /\ GenIdle
    /\ mapping \in AllSteps
    /\ metadata \in ComposeMetadata(mapping)
    /\ model \in Models
    /\ ext = [c \in Classes |-> Blank(c)]
    /\ alias_count = 0
    /\ query = BaseQuery(mapping)
    /\ compose_pc = [stage |-> "construct", i |-> 1]
    /\ compose_error = "none"

ComposeConstruct ==
    /\ compose_pc.stage = "construct"
    /\ LET e == registered(mapping)[compose_pc.i]
           self == init(ext[e], mapping, metadata)
       IN /\ ext' = [ext EXCEPT ![e] = self]
          /\ IF self.init_raised # "none"
             THEN /\ compose_pc' = [stage |-> "raised", i |-> compose_pc.i]
                  /\ compose_error' = self.init_raised
             ELSE /\ compose_pc' = Advance(compose_pc, mapping)
                  /\ UNCHANGED compose_error
    /\ UNCHANGED <<gen_vars, step_vars, alias_count, query>>

\* the add_* method that applies fragment f
add_fragment(f, q, v, by) ==
    CASE f = "outerjoins_to_add" -> add_outerjoins(q, v, by)
      [] f = "columns_to_add" -> add_columns(q, v, by)
      [] f = "filters_to_add" -> add_filters(q, v, by)

\* the i-th extender's fragment f is read and, unless it raised, added
ComposeCall(f) ==
    LET e == registered(mapping)[compose_pc.i]
        r == Read(e, f)
    IN /\ ext' = [ext EXCEPT ![e] = r.self]
       /\ mapping' = r.mapping
       /\ alias_count' = r.alias_count
       /\ IF r.raises # "none"
          THEN /\ compose_pc' = [stage |-> "raised", i |-> compose_pc.i]
               /\ compose_error' = r.raises
               /\ UNCHANGED query
          ELSE /\ compose_pc' = Advance(compose_pc, mapping)
               /\ query' = add_fragment(f, query, r.value, e)
               /\ UNCHANGED compose_error
       /\ UNCHANGED <<gen_vars, metadata, model>>

ComposeAddOuterjoins ==
    /\ compose_pc.stage = "add_outerjoins"
    /\ ComposeCall("outerjoins_to_add")

ComposeAddColumns ==
    /\ compose_pc.stage = "add_columns"
    /\ ComposeCall("columns_to_add")

ComposeAddFilters ==
    /\ compose_pc.stage = "add_filters"
    /\ ComposeCall("filters_to_add")

ComposeNext ==
    \/ ComposeConstruct
    \/ ComposeAddOuterjoins
    \/ ComposeAddColumns
    \/ ComposeAddFilters

ComposeSpec == ComposeInit /\ [][ComposeNext]_vars

Init == GenInit /\ QueryIdle

Next == GenNext

Spec == Init /\ [][Next]_vars

(***************************************************************************)
(* Vocabulary of the properties                                            *)
(***************************************************************************)
NoDuplicates(s) == \A i, j \in 1..Len(s) : s[i] = s[j] => i = j

\* the elements of s at the positions in idx, in the order of s
AtPositions(s, idx) ==
    [k \in 1..Cardinality(idx) |->
        s[CHOOSE i \in idx : Cardinality({j \in idx : j <= i}) = k]]

\* position of the first occurrence of x in s (x occurs in s)
FirstIndex(s, x) == CHOOSE i \in 1..Len(s) : s[i] = x /\ \A j \in 1..(i - 1) : s[j] # x

\* s lists every member of Range(all) once, ordered by first occurrence in all
FirstOccurrenceOrder(s, all) ==
    /\ Range(s) = Range(all)
    /\ NoDuplicates(s)
    /\ \A p, q \in 1..Len(s) : p < q => FirstIndex(all, s[p]) < FirstIndex(all, s[q])

ExportedNames == { decls[i].sf_object : i \in 1..Len(decls) }

Classified == gen_pc \in {"discover", "steps", "done"}

\* what the schema reports for field f of declaration i
ReferenceTo(i, f) == schema[decls[i].sf_object][f].referenceTo

InSchema(i, f) == schema[decls[i].sf_object][f].present

Declared(i, f) == In(f, decls[i].fields)

\* a lookup whose every candidate target is outside the export set
NoExportedTarget(i, f) ==
    /\ ReferenceTo(i, f) # <<>>
    /\ Range(ReferenceTo(i, f)) \cap ExportedNames = {}

LookupKeys(i) == Range(DictKeys(simplified_decls_w_lookups[i].lookups))

PlainFields(i) == Range(simplified_decls_w_lookups[i].fields)

(***************************************************************************)
(* C1: after classify_and_filter_lookups every entry of a classified       *)
(* declaration's lookups maps the field to exactly the members of the      *)
(* field's referenceTo that are object names of declarations of the same   *)
(* input list, in referenceTo order; so every target is an exported name   *)
(* and no lookups value is empty.                                          *)
(***************************************************************************)
C1_LookupTargetsAreExportedReferences ==
    Classified =>
        \A i \in 1..Len(simplified_decls_w_lookups) :
            LET lookups == simplified_decls_w_lookups[i].lookups
            IN /\ NoDuplicates(DictKeys(lookups))
               /\ \A k \in 1..Len(lookups) :
                    LET refs == ReferenceTo(i, lookups[k].key)
                    IN /\ lookups[k].value =
                            AtPositions(refs, {n \in 1..Len(refs) : refs[n] \in ExportedNames})
                       /\ Range(lookups[k].value) \subseteq ExportedNames
                       /\ lookups[k].value # <<>>

\* a polymorphic lookup that lost some, but not all, of its targets
C1_Witness ==
    /\ Classified
    /\ \E i \in 1..Len(simplified_decls_w_lookups) :
         \E k \in 1..Len(simplified_decls_w_lookups[i].lookups) :
            LET e == simplified_decls_w_lookups[i].lookups[k]
            IN /\ Len(e.value) = 2
               /\ Len(ReferenceTo(i, e.key)) = 3

(***************************************************************************)
(* C2 as claimed: every declared field whose referenceTo is non-empty and  *)
(* has no exported member is in neither fields nor lookups, and            *)
(* classification completes without error (whenever the schema knows every *)
(* field it is asked about); every other declared field is in exactly one  *)
(* of the two; plain fields keep their declared relative order.            *)
(***************************************************************************)
AllConsultedFieldsInSchema ==
    \A i \in 1..Len(decls) : \A f \in FieldNames :
        Declared(i, f) /\ f # "RecordTypeId" => InSchema(i, f)

C2_Original ==
    /\ AllConsultedFieldsInSchema => gen_pc = "classify" \/ Classified
    /\ Classified =>
         \A i \in 1..Len(decls) : \A f \in FieldNames :
            Declared(i, f) /\ InSchema(i, f) =>
                IF NoExportedTarget(i, f)
                THEN f \notin PlainFields(i) /\ f \notin LookupKeys(i)
                ELSE (f \in PlainFields(i)) # (f \in LookupKeys(i))

(***************************************************************************)
(* C2 amended: the same for every declared field other than RecordTypeId;  *)
(* RecordTypeId, when declared, is in fields and not in lookups whatever   *)
(* the schema reports for it.  The plain fields are the declared fields    *)
(* that are RecordTypeId or have an empty referenceTo, in declared order.  *)
(***************************************************************************)
C2_DroppedLookupsAreInNeither ==
    /\ AllConsultedFieldsInSchema => gen_pc = "classify" \/ Classified
    /\ Classified =>
         \A i \in 1..Len(decls) :
            /\ \A f \in FieldNames :
                 Declared(i, f) =>
                    IF f = "RecordTypeId"
                    THEN f \in PlainFields(i) /\ f \notin LookupKeys(i)
                    ELSE IF NoExportedTarget(i, f)
                    THEN f \notin PlainFields(i) /\ f \notin LookupKeys(i)
                    ELSE (f \in PlainFields(i)) # (f \in LookupKeys(i))
            /\ PlainFields(i) \cup LookupKeys(i) \subseteq Range(decls[i].fields)
            /\ simplified_decls_w_lookups[i].fields =
                 LET fs == decls[i].fields
                 IN AtPositions(fs, {n \in 1..Len(fs) :
                                        \/ fs[n] = "RecordTypeId"
                                        \/ ReferenceTo(i, fs[n]) = <<>>})

\* a declaration with a dropped lookup between a plain field and a kept lookup
C2_Witness ==
    /\ Classified
    /\ \E i \in 1..Len(decls) :
         /\ decls[i].fields = <<"Name", "OwnerId", "ParentId">>
         /\ NoExportedTarget(i, "OwnerId")
         /\ "ParentId" \in LookupKeys(i)
         /\ simplified_decls_w_lookups[i].fields = <<"Name">>

(***************************************************************************)
(* C3: classification never places RecordTypeId into lookups; a declared   *)
(* RecordTypeId is a plain field even when the schema reports a non-empty  *)
(* referenceTo for it with an exported member; the schema is not consulted *)
(* for it, so a schema without RecordTypeId raises nothing.                *)
(***************************************************************************)
C3_RecordTypeIdIsNeverALookup ==
    /\ Classified =>
         \A i \in 1..Len(decls) :
            /\ "RecordTypeId" \notin LookupKeys(i)
            /\ Declared(i, "RecordTypeId") => "RecordTypeId" \in PlainFields(i)
    /\ gen_error # "none" =>
         \E i \in 1..Len(decls) : \E f \in FieldNames \ {"RecordTypeId"} :
            Declared(i, f) /\ ~InSchema(i, f)

\* RecordTypeId declared, reported as a reference to the exported Account
C3_Witness ==
    /\ Classified
    /\ \E i \in 1..Len(decls) :
         /\ Declared(i, "RecordTypeId")
         /\ ReferenceTo(i, "RecordTypeId") = <<"Account">>
         /\ "Account" \in ExportedNames
         /\ "RecordTypeId" \in PlainFields(i)

(***************************************************************************)
(* C4: discover_dependendencies returns one edge (sf_object, targets,      *)
(* fieldname) per lookup of each classified declaration, without           *)
(* duplicates, ordered by first occurrence when the declarations are read  *)
(* in input order and the lookups in mapping order; adding an edge already *)
(* present changes nothing.                                                *)
(***************************************************************************)
Discovered == gen_pc \in {"steps", "done"}

\* the edge of lookup k of classified declaration i
EdgeOf(i, k) ==
    [table_name_from |-> simplified_decls_w_lookups[i].sf_object,
     table_names_to |-> simplified_decls_w_lookups[i].lookups[k].value,
     field_name |-> simplified_decls_w_lookups[i].lookups[k].key]

LookupPositions ==
    { <<i, k>> : i \in 1..Len(simplified_decls_w_lookups), k \in 1..Cardinality(FieldNames) }
        \cap { p \in (1..Len(simplified_decls_w_lookups)) \X (1..Cardinality(FieldNames)) :
                 p[2] <= Len(simplified_decls_w_lookups[p[1]].lookups) }

Before(p, q) == p[1] < q[1] \/ (p[1] = q[1] /\ p[2] < q[2])

\* the first lookup, in iteration order, that yields edge e
FirstEmitter(e) ==
    CHOOSE p \in LookupPositions :
        /\ EdgeOf(p[1], p[2]) = e
        /\ \A q \in LookupPositions : EdgeOf(q[1], q[2]) = e => q = p \/ Before(p, q)

C4_DependenciesInFirstOccurrenceOrder ==
    Discovered =>
        /\ Range(intertable_dependencies) = { EdgeOf(p[1], p[2]) : p \in LookupPositions }
        /\ NoDuplicates(intertable_dependencies)
        /\ \A a, b \in 1..Len(intertable_dependencies) :
              a < b => Before(FirstEmitter(intertable_dependencies[a]),
                              FirstEmitter(intertable_dependencies[b]))
        /\ \A a \in 1..Len(intertable_dependencies) :
              OrderedSetAdd(intertable_dependencies, intertable_dependencies[a])
                  = intertable_dependencies

\* two declarations of one object emit the same two edges: four lookups, two edges
C4_Witness ==
    /\ Discovered
    /\ Cardinality(LookupPositions) = 4
    /\ Len(intertable_dependencies) = 2
    /\ intertable_dependencies[1].field_name = "OwnerId"
    /\ intertable_dependencies[2].field_name = "ParentId"

(***************************************************************************)
(* C9: mapping assembly yields, per classified declaration and in input    *)
(* order, one step with the declaration's sf_object, whose fields mapping  *)
(* has every plain field name followed by every lookup field name as keys, *)
(* each mapped to itself, each once, and no lookups.                       *)
(***************************************************************************)
C9_MappingStepsCarryFieldsAndLookupNames ==
    gen_pc = "done" =>
        /\ Len(mapping_steps) = Len(simplified_decls_w_lookups)
        /\ \A i \in 1..Len(mapping_steps) :
             LET step == mapping_steps[i]
                 decl == simplified_decls_w_lookups[i]
                 keys == DictKeys(step.fields)
             IN /\ step.sf_object = decl.sf_object
                /\ step.lookups = <<>>
                /\ \A k \in 1..Len(step.fields) : step.fields[k].value = step.fields[k].key
                /\ FirstOccurrenceOrder(keys, decl.fields \o DictKeys(decl.lookups))
                /\ \A p, q \in 1..Len(keys) :
                      keys[p] \in LookupKeys(i) /\ keys[q] \in PlainFields(i) => q < p

\* a declaration that repeats a plain field and has a lookup
C9_Witness ==
    /\ gen_pc = "done"
    /\ \E i \in 1..Len(mapping_steps) :
         /\ simplified_decls_w_lookups[i].fields = <<"Name", "Name">>
         /\ DictKeys(mapping_steps[i].fields) = <<"Name", "ParentId">>

(***************************************************************************)
(* Vocabulary of the properties of the extenders                           *)
(***************************************************************************)
\* the instances of class c that exist
Live(c) == { e \in DOMAIN ext : ext[e].cls = c /\ ext[e].constructed }

\* the lookups of the step that are resolved at insert time, by position
NotDeferred == { i \in 1..Len(mapping.lookups) : ~mapping.lookups[i].after }

NotDeferredLookups == AtPositions(mapping.lookups, NotDeferred)

\* what a query selects from: its own table and the targets of its joins
Introduced(q) == {q.from} \cup { q.joins[i].target : i \in 1..Len(q.joins) }

\* the tables and aliases a column or filter refers to
ReferencedBy(item) ==
    IF "from" \in DOMAIN item THEN {item.from}
    ELSE IF "column" \in DOMAIN item THEN {item.column.from}
    ELSE IF "lower" \in DOMAIN item THEN {item.lower.from} \ {NoTable}
    ELSE {}

\* position of the last call of op in the log, 0 if there is none
LastCall(applied, op) ==
    IF \E i \in 1..Len(applied) : applied[i].op = op
    THEN CHOOSE i \in 1..Len(applied) :
            applied[i].op = op /\ \A j \in (i + 1)..Len(applied) : applied[j].op # op
    ELSE 0

FirstCall(applied, op) ==
    IF \E i \in 1..Len(applied) : applied[i].op = op
    THEN CHOOSE i \in 1..Len(applied) :
            applied[i].op = op /\ \A j \in 1..(i - 1) : applied[j].op # op
    ELSE Len(applied) + 1

RegistrationRank(c) ==
    CASE c = "AddLookupsToQuery" -> 1
      [] c = "AddRecordTypesToQuery" -> 2
      [] c = "AddMappingFiltersToQuery" -> 3
      [] c = "AddPersonAccountsToQuery" -> 4

(***************************************************************************)
(* C5 as claimed: the composition adds all outer joins of all extenders,   *)
(* then all columns, then all filters, each in registration order; it is   *)
(* ended early only by a missing record-type mapping table; and whenever a *)
(* column or filter is in the query, what it refers to has been introduced *)
(* by the query's own table or by a join added before it.                  *)
(***************************************************************************)
C5_JoinsThenColumnsThenFilters ==
    /\ LastCall(query.applied, "outerjoin") < FirstCall(query.applied, "add_columns")
    /\ LastCall(query.applied, "add_columns") < FirstCall(query.applied, "filter")
       \/ LastCall(query.applied, "add_columns") = 0
    /\ LastCall(query.applied, "outerjoin") < FirstCall(query.applied, "filter")
    /\ \A i, j \in 1..Len(query.applied) :
          i < j /\ query.applied[i].op = query.applied[j].op =>
              RegistrationRank(query.applied[i].by) < RegistrationRank(query.applied[j].by)
    /\ \A i \in 1..Len(query.columns) :
          ReferencedBy(query.columns[i]) \subseteq Introduced(query)
    /\ \A i \in 1..Len(query.filters) :
          ReferencedBy(query.filters[i]) \subseteq Introduced(query)
    /\ compose_pc.stage = "raised" =>
          /\ HasRecordTypeId(mapping)
          /\ ~(RecordTypeTables(mapping) \subseteq metadata)

(***************************************************************************)
(* C6 as claimed: an AddLookupsToQuery instance emits nothing for the      *)
(* deferred lookups and one sf_id column and one outer join per lookup     *)
(* that is not deferred, in the step's lookup order, on an alias of the    *)
(* lookup's <table>_sf_ids table, the same alias in the column and in the  *)
(* join; with every id-mapping table in the metadata the fragments are     *)
(* emitted, not an error.                                                  *)
(***************************************************************************)
C6_OneColumnAndJoinPerActiveLookup ==
    \A e \in Live("AddLookupsToQuery") :
        LET columns == ext[e].cached["columns_to_add"]
            joins == ext[e].cached["outerjoins_to_add"]
        IN /\ columns.set =>
                /\ Len(columns.value.items) = Len(NotDeferredLookups)
                /\ \A k \in 1..Len(NotDeferredLookups) :
                      /\ columns.value.items[k].name = "sf_id"
                      /\ columns.value.items[k].from.alias_id > 0
                      /\ columns.value.items[k].from.table
                            = sf_ids_table(NotDeferredLookups[k].table)
           /\ joins.set =>
                /\ Len(joins.value.items) = Len(NotDeferredLookups)
                /\ \A k \in 1..Len(NotDeferredLookups) :
                      /\ joins.value.items[k].target.alias_id > 0
                      /\ joins.value.items[k].target.table
                            = sf_ids_table(NotDeferredLookups[k].table)
           /\ columns.set /\ joins.set =>
                \A k \in 1..Len(NotDeferredLookups) :
                    columns.value.items[k].from = joins.value.items[k].target
           /\ SfIdsTables \subseteq metadata =>
                \A f \in Fragments : ext[e].raised[f] = "none"

(***************************************************************************)
(* C7 as claimed: for a step that declares RecordTypeId, constructing      *)
(* AddRecordTypesToQuery and computing its fragments raises nothing when   *)
(* both record-type mapping tables are in the metadata, and otherwise      *)
(* fails, with a BulkDataException and nothing else.                       *)
(***************************************************************************)
C7_MissingRecordTypeTableIsBulkDataException ==
    \A e \in DOMAIN ext :
        ext[e].cls = "AddRecordTypesToQuery" /\ HasRecordTypeId(mapping) =>
            /\ ext[e].init_raised \in {"none", "BulkDataException"}
            /\ \A f \in Fragments : ext[e].raised[f] \in {"none", "BulkDataException"}
            /\ RecordTypeTables(mapping) \subseteq metadata =>
                  /\ ext[e].init_raised = "none"
                  /\ \A f \in Fragments : ext[e].raised[f] = "none"
            /\ ~(RecordTypeTables(mapping) \subseteq metadata) =>
                  ~ext[e].cached["outerjoins_to_add"].set

(***************************************************************************)
(* C8 as claimed: an AddPersonAccountsToQuery instance on a step that is   *)
(* not a Contact step fails at once: nothing of it is ever read without an *)
(* assertion failing.                                                      *)
(***************************************************************************)
C8_Original ==
    \A e \in Live("AddPersonAccountsToQuery") :
        mapping.sf_object # "Contact" =>
            \A f \in Fragments : ext[e].completed[f] = 0

(***************************************************************************)
(* C8 amended: on a step that is not a Contact step the instance is        *)
(* constructed without error and its columns and outer joins are None;     *)
(* every read of its filters raises AssertionError, so it never holds a    *)
(* filter.  On a Contact step its filters are exactly one predicate, which *)
(* no row whose IsPersonAccount is "true" in any letter case passes.       *)
(***************************************************************************)
C8_AssertionOnFiltersOnly ==
    \A e \in DOMAIN ext :
        ext[e].cls = "AddPersonAccountsToQuery" =>
            /\ ext[e].init_raised = "none"
            /\ ~Truthy(ext[e].cached["columns_to_add"].value)
            /\ ~Truthy(ext[e].cached["outerjoins_to_add"].value)
            /\ ext[e].raised["columns_to_add"] = "none"
            /\ ext[e].raised["outerjoins_to_add"] = "none"
            /\ IF mapping.sf_object # "Contact"
               THEN /\ ~ext[e].cached["filters_to_add"].set
                    /\ ext[e].completed["filters_to_add"] = 0
                    /\ ext[e].runs["filters_to_add"] > 0 =>
                          ext[e].raised["filters_to_add"] = "AssertionError"
               ELSE /\ ext[e].raised["filters_to_add"] = "none"
                    /\ ext[e].cached["filters_to_add"].set =>
                          LET filters == ext[e].cached["filters_to_add"].value
                          IN /\ ~filters.is_none
                             /\ Len(filters.items) = 1
                             /\ \A v \in PersonAccountValues :
                                   Lower(v) = "true" => ~RowPasses(filters.items[1], v)

\* on an Account step: columns read and None, filters read and raised
C8_Witness ==
    \E e \in Live("AddPersonAccountsToQuery") :
        /\ mapping.sf_object = "Account"
        /\ ext[e].completed["columns_to_add"] = 1
        /\ ext[e].cached["columns_to_add"].value = NoneFragment
        /\ ext[e].runs["filters_to_add"] = 2
        /\ ext[e].raised["filters_to_add"] = "AssertionError"

(***************************************************************************)
(* C10: on every extender instance the function of each fragment returns   *)
(* at most once; from then on the instance holds the value, it is never    *)
(* run again, and every read gives the caller the value the first read     *)
(* gave; only a function that raised is run again.                         *)
(***************************************************************************)
FragmentsAreComputedOnce ==
    \A e \in DOMAIN ext : \A f \in Fragments :
        /\ ext[e].completed[f] <= 1
        /\ ext[e].cached[f].set <=> ext[e].completed[f] = 1
        /\ ext[e].completed[f] = 1 =>
              /\ ext[e].cached[f].value = ext[e].first[f]
              /\ ext[e].returned[f] = ext[e].first[f]

CachedFragmentsStay ==
    \A e \in DOMAIN ext : \A f \in Fragments :
        ext[e].cached[f].set =>
            /\ ext'[e].cached[f] = ext[e].cached[f]
            /\ ext'[e].runs[f] = ext[e].runs[f]
            /\ ext'[e].first[f] = ext[e].first[f]

C10_FragmentsComputedAtMostOnce ==
    [](FragmentsAreComputedOnce) /\ [][CachedFragmentsStay]_vars

\* outer joins that raised, then were computed; the columns are held too
C10_Witness ==
    \E e \in Live("AddLookupsToQuery") :
        /\ ext[e].runs["outerjoins_to_add"] = 2
        /\ ext[e].completed["outerjoins_to_add"] = 1
        /\ ext[e].cached["outerjoins_to_add"].set
        /\ Truthy(ext[e].cached["columns_to_add"].value)

(***************************************************************************)
(* C11 as claimed: the fragments of an instance can be first read in any   *)
(* order.  No read of a fragment fails for want of another fragment (an    *)
(* AttributeError on an attribute that only another fragment sets), and    *)
(* AddLookupsToQuery.outerjoins_to_add, read while columns_to_add of the   *)
(* instance has never been read, returns one join per lookup that is not   *)
(* deferred.                                                               *)
(***************************************************************************)
C11_FragmentsReadInAnyOrder ==
    \A e \in DOMAIN ext :
        /\ \A f \in Fragments : ext[e].raised[f] # "AttributeError"
        /\ /\ ext[e].cls = "AddLookupsToQuery"
           /\ ext[e].runs["outerjoins_to_add"] > 0
           /\ ext[e].runs["columns_to_add"] = 0
           => /\ ext[e].cached["outerjoins_to_add"].set
              /\ ~ext[e].cached["outerjoins_to_add"].value.is_none
              /\ Len(ext[e].cached["outerjoins_to_add"].value.items)
                    = Len(NotDeferredLookups)

(***************************************************************************)
(* C12 as claimed: constructing an extender and reading its fragments      *)
(* changes nothing but that instance: the load step with each of its       *)
(* lookup objects, the store metadata and the record model stay as they    *)
(* are, and so does every other instance built on the step.                *)
(***************************************************************************)
OnlyTheInstanceChanges ==
    /\ mapping' = mapping
    /\ metadata' = metadata
    /\ model' = model
    /\ \A e \in DOMAIN ext :
          ext'[e] # ext[e] => \A other \in DOMAIN ext \ {e} : ext'[other] = ext[other]

C12_FragmentsChangeNoSharedState == [][OnlyTheInstanceChanges]_vars

(***************************************************************************)
(* C13 as claimed: on a step whose fields do not contain RecordTypeId, an  *)
(* AddRecordTypesToQuery instance never holds a fragment that is not       *)
(* empty, whatever mapping.record_type and the record model are, and no    *)
(* missing table of the metadata makes it raise.                           *)
(***************************************************************************)
C13_Original ==
    \A e \in DOMAIN ext :
        ext[e].cls = "AddRecordTypesToQuery" /\ ~HasRecordTypeId(mapping) =>
            /\ ext[e].init_raised = "none"
            /\ \A f \in Fragments :
                  /\ ext[e].raised[f] = "none"
                  /\ ~Truthy(ext[e].cached[f].value)
                  /\ ~Truthy(ext[e].returned[f])

(***************************************************************************)
(* C13 amended: on a step whose fields do not contain RecordTypeId, the    *)
(* columns and the outer joins of an AddRecordTypesToQuery instance are    *)
(* None and nothing is raised whichever tables the metadata lacks; its     *)
(* filters are the one comparison of the model's record_type with          *)
(* mapping.record_type when mapping.record_type is set and the model has   *)
(* the attribute, and None otherwise.                                      *)
(***************************************************************************)
C13_OnlyTheRecordTypeFilterWithoutRecordTypeId ==
    \A e \in DOMAIN ext :
        ext[e].cls = "AddRecordTypesToQuery" /\ ~HasRecordTypeId(mapping) =>
            /\ ext[e].init_raised = "none"
            /\ ext[e].rt_dest_table = NoTable
            /\ \A f \in Fragments : ext[e].raised[f] = "none"
            /\ \A f \in {"columns_to_add", "outerjoins_to_add"} :
                  /\ ext[e].cached[f].value = NoneFragment
                  /\ ext[e].returned[f] = NoneFragment
            /\ ext[e].cached["filters_to_add"].set =>
                  LET filters == ext[e].cached["filters_to_add"].value
                  IN IF mapping.record_type # "" /\ model.record_type
                     THEN /\ ~filters.is_none
                          /\ Len(filters.items) = 1
                          /\ filters.items[1].column
                                = Column(model_table(mapping), "record_type")
                          /\ filters.items[1].equals = mapping.record_type
                     ELSE filters = NoneFragment

\* no RecordTypeId, no record-type table in the metadata, all three
\* fragments read, the filter not empty
C13_Witness ==
    \E e \in Live("AddRecordTypesToQuery") :
        /\ ~HasRecordTypeId(mapping)
        /\ RecordTypeTables(mapping) \cap metadata = {}
        /\ \A f \in Fragments : ext[e].completed[f] = 1
        /\ Truthy(ext[e].cached["filters_to_add"].value)

(***************************************************************************)
(* C14: every lookup that is not deferred has a table alias of its own.    *)
(* The columns an AddLookupsToQuery instance holds are on pairwise         *)
(* distinct aliases, and so are its joins, also when two lookups have the  *)
(* same target table; each is an alias, not a table, and none is the table *)
(* of the step's own object, also for a lookup to that object; the aliases *)
(* the lookups of the step carry are pairwise distinct at all times.       *)
(***************************************************************************)
C14_EveryLookupHasItsOwnAlias ==
    /\ \A i, j \in NotDeferred :
          /\ i # j
          /\ mapping.lookups[i].aliased_table # NoTable
          => mapping.lookups[i].aliased_table # mapping.lookups[j].aliased_table
    /\ \A e \in Live("AddLookupsToQuery") :
          LET columns == ext[e].cached["columns_to_add"]
              joins == ext[e].cached["outerjoins_to_add"]
          IN /\ columns.set =>
                   \A k \in 1..Len(columns.value.items) :
                      /\ columns.value.items[k].from.alias_id > 0
                      /\ columns.value.items[k].from # model_table(mapping)
                      /\ \A l \in 1..Len(columns.value.items) :
                            k # l => columns.value.items[k].from
                                        # columns.value.items[l].from
             /\ joins.set =>
                   \A k \in 1..Len(joins.value.items) :
                      /\ joins.value.items[k].target.alias_id > 0
                      /\ joins.value.items[k].target # model_table(mapping)
                      /\ \A l \in 1..Len(joins.value.items) :
                            k # l => joins.value.items[k].target
                                        # joins.value.items[l].target

\* an Account step with two lookups to Account, neither deferred; the
\* columns and the joins of an instance are both held
C14_Witness ==
    \E e \in Live("AddLookupsToQuery") :
        /\ mapping.sf_object = "Account"
        /\ Len(mapping.lookups) = 2
        /\ NotDeferred = {1, 2}
        /\ \A i \in NotDeferred : mapping.lookups[i].table = "Account"
        /\ ext[e].cached["columns_to_add"].set
        /\ ext[e].cached["outerjoins_to_add"].set
        /\ Len(ext[e].cached["columns_to_add"].value.items) = 2
        /\ Len(ext[e].cached["outerjoins_to_add"].value.items) = 2

====
